---- MODULE Spec2Model ----
(***************************************************************************)
(* Model of salticidae's conn.h: the segmented byte buffer (RingBuffer),   *)
(* the connection (ConnPool::Conn) and the connection pool (ConnPool).     *)
(*                                                                         *)
(* A byte array (bytearray_t) is a sequence of naturals.  An iterator into *)
(* a byte array is the distance from begin(): offset = 0 is data.begin(),  *)
(* offset = Len(data) is data.end().                                       *)
(***************************************************************************)
EXTENDS Integers, Sequences, FiniteSets, TLC

\* ------------------------------------------------------------------------
\* Bounds of the buffer model
\* ------------------------------------------------------------------------
\* total number of bytes ever pushed into the stand-alone buffers
MaxBytes == 3
\* longest byte array handed to one push / write
MaxData == 2
\* most segments a stand-alone buffer holds
MaxSegs == 2
\* largest len handed to pop
MaxPop == 3

BufIds == {"a", "b"}

\* std::min
Min(x, y) == IF x < y THEN x ELSE y

\* the byte array [from+1, ..., from+n]: every pushed byte is distinct, so
\* a lost, duplicated or reordered byte is visible
Fresh(from, n) == [k \in 1..n |-> from + k]

\* ------------------------------------------------------------------------
\* RingBuffer::buffer_entry_t
\* ------------------------------------------------------------------------
\* buffer_entry_t(bytearray_t &&_data): offset = data.begin()
buffer_entry_t(data) == [data |-> data, offset |-> 0]

buffer_entry_copy_reset(other) == [data |-> other.data, offset |-> 0]

\* buffer_entry_t(const buffer_entry_t &other)
buffer_entry_copy(other) == [data |-> other.data, offset |-> 0 + other.offset]

\* size_t length() const { return data.end() - offset; }
length(e) == Len(e.data) - e.offset

\* ------------------------------------------------------------------------
\* RingBuffer
\* ------------------------------------------------------------------------
\* RingBuffer(): _size(0) {}
RingBuffer == [ring |-> <<>>, _size |-> 0]

\* size()
size(rb) == rb._size

\* swap(other): the pair (this, other) after the call
swap(this, other) ==
    [this  |-> [ring |-> other.ring, _size |-> other._size],
     other |-> [ring |-> this.ring,  _size |-> this._size]]

\* clear()
clear(rb) == [ring |-> <<>>, _size |-> 0]

\* RingBuffer(const RingBuffer &other): std::list copies entry by entry
RingBuffer_copy(other) ==
    [ring  |-> [i \in DOMAIN other.ring |-> buffer_entry_copy(other.ring[i])],
     _size |-> other._size]

RingBuffer_move_keep_size(other) ==
    [this  |-> [ring |-> other.ring, _size |-> other._size],
     other |-> [ring |-> <<>>, _size |-> other._size]]

\* RingBuffer(RingBuffer &&other): the list is stolen, other._size = 0
RingBuffer_move(other) ==
    [this  |-> [ring |-> other.ring, _size |-> other._size],
     other |-> [ring |-> <<>>, _size |-> 0]]

\* operator=(RingBuffer &&other); same is (this == &other).
\* tmp(std::move(other)); tmp.swap(*this); ~tmp clears the old content
assign_move(this, other, same) ==
    IF same THEN [this |-> this, other |-> this]
    ELSE LET m == RingBuffer_move(other)
             s == swap(m.this, this)
         IN  [this |-> s.other, other |-> m.other]

\* operator=(const RingBuffer &other)
assign_copy(this, other, same) ==
    IF same THEN this
    ELSE LET tmp == RingBuffer_copy(other)
             s   == swap(tmp, this)
         IN  s.other

push_nosize(rb, data) ==
    [ring |-> Append(rb.ring, buffer_entry_t(data)), _size |-> rb._size]

push_front(rb, data) ==
    [ring |-> <<buffer_entry_t(data)>> \o rb.ring, _size |-> rb._size + Len(data)]

\* push(bytearray_t &&data)
push(rb, data) ==
    [ring  |-> Append(rb.ring, buffer_entry_t(data)),
     _size |-> rb._size + Len(data)]

\* the while loop of pop: i is the list iterator (index of the entry, Len+1
\* is ring.end()), len the bytes still wanted, res the bytes copied so far
RECURSIVE pop_loop(_, _, _, _)
pop_loop(ring, i, len, res) ==
    IF len # 0 /\ i # Len(ring) + 1
    THEN LET e        == ring[i]
             copy_len == Min(length(e), len)
             e2       == [e EXCEPT !.offset = @ + copy_len]
         IN  pop_loop([ring EXCEPT ![i] = e2],
                      IF e2.offset = Len(e2.data) THEN i + 1 ELSE i,
                      len - copy_len,
                      res \o SubSeq(e.data, e.offset + 1, e.offset + copy_len))
    ELSE [ring |-> ring, i |-> i, res |-> res]

pop_no_erase(rb, len) ==
    LET l == pop_loop(rb.ring, 1, len, <<>>)
    IN  [rb  |-> [ring |-> l.ring, _size |-> rb._size - Len(l.res)],
         res |-> l.res]

pop_evict_partial(rb, len) ==
    LET l == pop_loop(rb.ring, 1, len, <<>>)
        j == Min(l.i + 1, Len(l.ring) + 1)
    IN  [rb  |-> [ring  |-> SubSeq(l.ring, j, Len(l.ring)),
                  _size |-> rb._size - Len(l.res)],
         res |-> l.res]

\* pop(size_t len): the buffer after the call and the bytes returned
pop(rb, len) ==
    LET l == pop_loop(rb.ring, 1, len, <<>>)
    IN  [rb  |-> [ring  |-> SubSeq(l.ring, l.i, Len(l.ring)),
                  _size |-> rb._size - Len(l.res)],
         res |-> l.res]

\* ------------------------------------------------------------------------
\* What a buffer holds (used to state the properties)
\* ------------------------------------------------------------------------
\* unconsumed tail of one segment
Unconsumed(e) == SubSeq(e.data, e.offset + 1, Len(e.data))

\* logical content: concatenation, in insertion order, of the tails
RECURSIVE ContentOf(_)
ContentOf(ring) ==
    IF ring = <<>> THEN <<>> ELSE Unconsumed(Head(ring)) \o ContentOf(Tail(ring))

RECURSIVE SumLength(_)
SumLength(ring) ==
    IF ring = <<>> THEN 0 ELSE length(Head(ring)) + SumLength(Tail(ring))

IsPrefix(s, t) == Len(s) <= Len(t) /\ SubSeq(t, 1, Len(s)) = s

\* ------------------------------------------------------------------------
\* Stand-alone buffers: two objects a and b, every public operation
\* ------------------------------------------------------------------------
VARIABLES
    bufs,    \* BufIds -> the RingBuffer object (RingBuffer when not alive)
    alive,   \* the buffer objects that are constructed
    nextb,   \* number of bytes pushed so far (the last byte value used)
    rlast,   \* the last buffer operation: its name, the buffers it was called
             \* on (x the object, y the argument), len, what it returned and
             \* pre: for pop the buffer as it was before the call, for a copy
             \* or a move the argument y as it was before the call
    hist     \* bytes pushed into and popped from buffer a (kept by SpecPP)

rbvars == <<bufs, alive, nextb, rlast, hist>>

Op(op, x, y, len, res, pre) ==
    [op |-> op, x |-> x, y |-> y, len |-> len, res |-> res, pre |-> pre]

\* RingBuffer x;
Construct(x) ==
    /\ x \notin alive
    /\ alive' = alive \cup {x}
    /\ bufs' = [bufs EXCEPT ![x] = RingBuffer]
    /\ rlast' = Op("construct", x, x, 0, <<>>, RingBuffer)
    /\ UNCHANGED nextb

\* ~RingBuffer() { clear(); }
Destroy(x) ==
    /\ x \in alive
    /\ alive' = alive \ {x}
    /\ bufs' = [bufs EXCEPT ![x] = clear(bufs[x])]
    /\ rlast' = Op("destroy", x, x, 0, <<>>, RingBuffer)
    /\ UNCHANGED nextb

\* x.push(data), data of n fresh bytes
Push(x, n) ==
    /\ x \in alive
    /\ nextb + n <= MaxBytes
    /\ Len(bufs[x].ring) < MaxSegs
    /\ bufs' = [bufs EXCEPT ![x] = push(bufs[x], Fresh(nextb, n))]
    /\ rlast' = Op("push", x, x, n, <<>>, RingBuffer)
    /\ nextb' = nextb + n
    /\ UNCHANGED alive

\* x.pop(len)
Pop(x, len) ==
    /\ x \in alive
    /\ LET p == pop(bufs[x], len)
       IN  /\ bufs' = [bufs EXCEPT ![x] = p.rb]
           /\ rlast' = Op("pop", x, x, len, p.res, bufs[x])
    /\ UNCHANGED <<alive, nextb>>

\* x.clear()
Clear(x) ==
    /\ x \in alive
    /\ bufs' = [bufs EXCEPT ![x] = clear(bufs[x])]
    /\ rlast' = Op("clear", x, x, 0, <<>>, RingBuffer)
    /\ UNCHANGED <<alive, nextb>>

\* x.swap(y)
Swap(x, y) ==
    /\ x \in alive /\ y \in alive /\ x # y
    /\ LET s == swap(bufs[x], bufs[y])
       IN  bufs' = [bufs EXCEPT ![x] = s.this, ![y] = s.other]
    /\ rlast' = Op("swap", x, y, 0, <<>>, RingBuffer)
    /\ UNCHANGED <<alive, nextb>>

\* RingBuffer x(y);
CopyConstruct(x, y) ==
    /\ x \notin alive /\ y \in alive
    /\ alive' = alive \cup {x}
    /\ bufs' = [bufs EXCEPT ![x] = RingBuffer_copy(bufs[y])]
    /\ rlast' = Op("copy_construct", x, y, 0, <<>>, bufs[y])
    /\ UNCHANGED nextb

\* RingBuffer x(std::move(y));
MoveConstruct(x, y) ==
    /\ x \notin alive /\ y \in alive
    /\ alive' = alive \cup {x}
    /\ LET m == RingBuffer_move(bufs[y])
       IN  bufs' = [bufs EXCEPT ![x] = m.this, ![y] = m.other]
    /\ rlast' = Op("move_construct", x, y, 0, <<>>, bufs[y])
    /\ UNCHANGED nextb

\* x = y;  (x and y may be the same object)
CopyAssign(x, y) ==
    /\ x \in alive /\ y \in alive
    /\ bufs' = [bufs EXCEPT ![x] = assign_copy(bufs[x], bufs[y], x = y)]
    /\ rlast' = Op("copy_assign", x, y, 0, <<>>, bufs[y])
    /\ UNCHANGED <<alive, nextb>>

\* x = std::move(y);  (x and y may be the same object)
MoveAssign(x, y) ==
    /\ x \in alive /\ y \in alive
    /\ LET m == assign_move(bufs[x], bufs[y], x = y)
       IN  bufs' = [bufs EXCEPT ![y] = m.other, ![x] = m.this]
    /\ rlast' = Op("move_assign", x, y, 0, <<>>, bufs[y])
    /\ UNCHANGED <<alive, nextb>>

\* ------------------------------------------------------------------------
\* One buffer under push and pop alone, with the bytes that went in and out
\* ------------------------------------------------------------------------
PushA(n) ==
    /\ Push("a", n)
    /\ hist' = [hist EXCEPT !.pushed = @ \o Fresh(nextb, n)]

PopA(len) ==
    /\ Pop("a", len)
    /\ hist' = [hist EXCEPT !.popped = @ \o rlast'.res]

\* ------------------------------------------------------------------------
\* Properties of the stand-alone buffers
\* ------------------------------------------------------------------------

\* C1: in every state, for every constructed buffer, the cached counter
\* returned by size() equals the sum of the unconsumed bytes
\* (data.end() - offset) of the segments in the buffer.
SizeInvariant ==
    \A x \in alive : size(bufs[x]) = SumLength(bufs[x].ring)

\* a state after a copy, move or swap in which a buffer holds more than one
\* segment, the front one partially consumed
SizeInvariantWitness ==
    /\ rlast.op \in {"swap", "move_assign", "copy_assign", "copy_construct",
                     "move_construct"}
    /\ \E x \in alive :
          /\ Len(bufs[x].ring) >= 2
          /\ bufs[x].ring[1].offset > 0
          /\ size(bufs[x]) >= 2

\* what pop(len) on a buffer pre must return and leave behind
PopPost(pre, len, post, res) ==
    LET c == ContentOf(pre.ring)
        n == Min(len, size(pre))
    IN  /\ Len(res) = n
        /\ res = SubSeq(c, 1, n)
        /\ ContentOf(post.ring) = SubSeq(c, n + 1, Len(c))
        /\ size(post) = size(pre) - n
        \* the segments left are a suffix of the old list, data untouched,
        \* and only the front one may have a moved cursor
        /\ \E k \in 0..Len(pre.ring) :
              /\ Len(post.ring) = Len(pre.ring) - k
              /\ \A j \in 1..Len(post.ring) :
                    /\ post.ring[j].data = pre.ring[k + j].data
                    /\ j > 1 => post.ring[j].offset = pre.ring[k + j].offset

\* C2: after every pop(len), from every buffer state, the bytes returned
\* are exactly min(len, size()) many, they are the first bytes of the logical
\* content the buffer had, and the logical content left is the remaining
\* suffix (a partially consumed front segment keeps its data and cursor).
PopReturnsPrefix ==
    rlast.op = "pop" =>
        PopPost(rlast.pre, rlast.len, bufs[rlast.x], rlast.res)

\* a pop that crossed a segment boundary and stopped inside a segment
PopReturnsPrefixWitness ==
    /\ rlast.op = "pop"
    /\ Len(rlast.pre.ring) >= 2
    /\ Len(rlast.res) > length(rlast.pre.ring[1])
    /\ Len(rlast.res) = rlast.len
    /\ Len(bufs[rlast.x].ring) >= 1
    /\ bufs[rlast.x].ring[1].offset > 0
    /\ length(bufs[rlast.x].ring[1]) > 0

\* C3: for one buffer under push and pop, the bytes returned so far are a
\* prefix of the bytes pushed so far, what is left in the buffer is the rest,
\* and size() = bytes pushed - bytes returned.
PushPopAccounting ==
    /\ IsPrefix(hist.popped, hist.pushed)
    /\ hist.popped \o ContentOf(bufs["a"].ring) = hist.pushed
    /\ size(bufs["a"]) = Len(hist.pushed) - Len(hist.popped)

\* the spec's example in shape: two pushes, a pop ending inside the second
\* segment, a pop asking for more than is left, then a pop on the empty
\* buffer returning nothing
PushPopAccountingWitness ==
    /\ rlast.op = "pop" /\ rlast.len > 0 /\ rlast.res = <<>>
    /\ Len(hist.pushed) >= 3
    /\ hist.popped = hist.pushed
    /\ size(bufs["a"]) = 0

\* C12: pop(0) on any buffer returns an empty byte array and leaves the
\* buffer as it was: the same segments, the same cursors, the same size().
PopZeroNoOp ==
    rlast.op = "pop" /\ rlast.len = 0 =>
        /\ rlast.res = <<>>
        /\ bufs[rlast.x] = rlast.pre

\* pop(0) on a buffer of two segments, the front one partially consumed
PopZeroNoOpWitness ==
    /\ rlast.op = "pop" /\ rlast.len = 0
    /\ Len(bufs[rlast.x].ring) = 2
    /\ bufs[rlast.x].ring[1].offset > 0
    /\ size(bufs[rlast.x]) >= 2

\* C13: after a move construction x(std::move(y)) or a move assignment
\* x = std::move(y) with x and y different objects, x is the buffer y was
\* (segments, cursors, size; what x held is gone) and y has no segments and
\* size() = 0; after x = std::move(x), x is as it was.
MoveTransfers ==
    /\ rlast.op \in {"move_construct", "move_assign"} /\ rlast.x # rlast.y =>
          /\ bufs[rlast.x] = rlast.pre
          /\ bufs[rlast.y].ring = <<>>
          /\ size(bufs[rlast.y]) = 0
    /\ rlast.op = "move_assign" /\ rlast.x = rlast.y =>
          bufs[rlast.x] = rlast.pre

\* a move assignment that handed over two segments, the front one partially
\* consumed
MoveTransfersWitness ==
    /\ rlast.op = "move_assign" /\ rlast.x # rlast.y
    /\ Len(bufs[rlast.x].ring) = 2
    /\ bufs[rlast.x].ring[1].offset > 0
    /\ length(bufs[rlast.x].ring[1]) > 0
    /\ size(bufs[rlast.y]) = 0

\* a step that is a push, pop or clear on one buffer leaves every other
\* buffer as it was
Independent ==
    rlast'.op \in {"push", "pop", "clear"} =>
        \A z \in BufIds \ {rlast'.x} : bufs'[z] = bufs[z]

\* C14: after a copy construction x(y) or a copy assignment x = y, x has the
\* segments, cursors and size() y had, and y is as it was; and a push, pop or
\* clear on one buffer never changes another buffer.
CopyDuplicates ==
    /\ [](rlast.op \in {"copy_construct", "copy_assign"} =>
             /\ bufs[rlast.y] = rlast.pre
             /\ bufs[rlast.x] = rlast.pre
             /\ size(bufs[rlast.x]) = size(rlast.pre)
             /\ ContentOf(bufs[rlast.x].ring) = ContentOf(rlast.pre.ring))
    /\ [][Independent]_rbvars

\* a pop on a buffer that shortened it while the other buffer, with the
\* longer content, still holds a partially consumed front segment
CopyDuplicatesWitness ==
    /\ rlast.op = "pop" /\ rlast.res # <<>>
    /\ \E z \in alive \ {rlast.x} :
          /\ bufs[z] = rlast.pre
          /\ bufs[z].ring[1].offset > 0
          /\ bufs[z] # bufs[rlast.x]

\* C17 as stated: every segment held by a buffer has at least one
\* unconsumed byte, also when empty byte arrays are pushed.
EagerEviction ==
    \A x \in alive :
        \A i \in DOMAIN bufs[x].ring : length(bufs[x].ring[i]) > 0

\* C17 amended: no segment that held bytes stays in a buffer once all its
\* bytes are consumed; a segment with no unconsumed byte is one that was
\* pushed as an empty byte array.
EagerEvictionOfConsumed ==
    \A x \in alive :
        \A i \in DOMAIN bufs[x].ring :
            length(bufs[x].ring[i]) > 0 \/ Len(bufs[x].ring[i].data) = 0

\* a pop that consumed the front segment to its last byte, which is gone,
\* and stopped at the start of the next one
EagerEvictionOfConsumedWitness ==
    /\ rlast.op = "pop" /\ rlast.len > 0
    /\ Len(rlast.pre.ring) = 2
    /\ rlast.len = length(rlast.pre.ring[1])
    /\ Len(bufs[rlast.x].ring) = 1
    /\ bufs[rlast.x].ring[1].offset = 0
    /\ length(bufs[rlast.x].ring[1]) > 0

\* ------------------------------------------------------------------------
\* ConnPool and ConnPool::Conn
\* ------------------------------------------------------------------------
\* calls of write() on the one connection of SpecIO
MaxWrites == 3
\* calls of write() over the connections of the pool of Spec
PoolWrites == 1
\* calls of write() and move_send_buffer() on the two connections of SpecMv
MvCalls == 2
\* connect attempts counted per connection (the count stops there, the
\* attempts do not)
MaxTries == 2

\* the connection objects the pool's factory makes, numbered in the order
\* they are made
ConnIds == {1, 2}
\* socket handles the OS can hand out (one for listening, one per connection)
FDs == 0..Cardinality(ConnIds)
NoFd == 0 - 1

\* a Conn object that has not been made by the factory yet
NoConn ==
    [made |-> FALSE, self_ref |-> FALSE, fd |-> NoFd, mode |-> "ACTIVE",
     send_buffer |-> RingBuffer, recv_buffer |-> RingBuffer,
     ev_read |-> FALSE, ev_write |-> FALSE, ev_connect |-> "none",
     ready_send |-> FALSE, setup |-> FALSE]

\* Conn(): self_ref(this) {} -- the buffers and the events are default
\* constructed; ready_send has no initialiser, so it holds whatever the
\* allocation held (garbage); fd and mode are assigned by the pool before use.
\* setup records that on_setup() has been invoked.
Conn(garbage) ==
    [made |-> TRUE, self_ref |-> TRUE, fd |-> NoFd, mode |-> "ACTIVE",
     send_buffer |-> RingBuffer, recv_buffer |-> RingBuffer,
     ev_read |-> FALSE, ev_write |-> FALSE, ev_connect |-> "none",
     ready_send |-> garbage, setup |-> FALSE]

VARIABLES
    conns,      \* ConnIds -> the Conn object
    pool,       \* ConnPool::pool, the registry: socket handle -> connection
    pool_state, \* "live", or "destroyed" once ~ConnPool has run
    listen_fd,  \* ConnPool::listen_fd, NoFd before listen()
    wire,       \* per connection: the bytes handed to the socket, in order
    written,    \* per connection: the write() payloads, concatenated
    td,         \* per connection: how often on_teardown() was invoked
    tcalls,     \* per connection: how often terminate() was entered (0, 1, 2+)
    budget,     \* write() and move_send_buffer() calls made and bytes
                \* written so far
    stale,      \* a reactor callback has run on a CLOSED connection
    clast,      \* the last write(), terminate(), move_send_buffer() or
                \* recv_data and what it observed
    tries       \* per connection: connect attempts issued, counted up to
                \* MaxTries (kept by SpecRetry)

cvars == <<conns, pool, pool_state, listen_fd, wire, written, td, tcalls,
           budget, stale, clast>>

\* the part of the state the connection code works on, with the counters of
\* one operation: sd = calls of send_data, io = send() calls on the socket,
\* rd = invocations of on_read()
World ==
    [conns |-> conns, pool |-> pool, td |-> td, tcalls |-> tcalls,
     wire |-> wire, sd |-> 0, io |-> 0, rd |-> 0]

\* the lifecycle state of the spec, read off the object
State(cn) ==
    IF ~cn.made THEN "none"
    ELSE IF cn.fd = NoFd THEN "CLOSED"
    ELSE IF cn.setup THEN "ESTABLISHED"
    ELSE IF cn.mode = "ACTIVE" THEN "CONNECTING"
    ELSE "SETUP"

NoEvents(cn) == ~cn.ev_read /\ ~cn.ev_write /\ cn.ev_connect = "none"

\* socket(2) / accept(2): the lowest handle that is not open
OpenFds == {conns[c].fd : c \in ConnIds} \cup {listen_fd}
FreeFds == FDs \ OpenFds
LowestFree == CHOOSE f \in FreeFds : \A g \in FreeFds : f <= g

close_keep_write(w, c) ==
    [w EXCEPT !.conns[c].ev_read = FALSE,
              !.conns[c].ev_connect = "none",
              !.conns[c].fd = NoFd]

close_keep_connect(w, c) ==
    [w EXCEPT !.conns[c].ev_read = FALSE,
              !.conns[c].ev_write = FALSE,
              !.conns[c].fd = NoFd]

close_keep_fd(w, c) ==
    [w EXCEPT !.conns[c].ev_read = FALSE,
              !.conns[c].ev_write = FALSE,
              !.conns[c].ev_connect = "none"]

\* Conn::close(): ev_read.clear(); ev_write.clear(); ev_connect.clear();
\* ::close(fd); fd = -1;
close(w, c) ==
    [w EXCEPT !.conns[c].ev_read = FALSE,
              !.conns[c].ev_write = FALSE,
              !.conns[c].ev_connect = "none",
              !.conns[c].fd = NoFd]

terminate_keep_entry(w, c) ==
    LET w0 == [w EXCEPT !.tcalls[c] = Min(@ + 1, 2)]
    IN  IF w.conns[c].fd = NoFd THEN w0
        ELSE [close(w0, c) EXCEPT !.td[c] = @ + 1,
                                  !.conns[c].self_ref = FALSE]

\* Conn::terminate(): a no-op on a connection whose handle is released;
\* otherwise cancel the events and close the handle (close()), invoke
\* on_teardown(), remove the registry entry, release the self-reference
terminate(w, c) ==
    LET w0 == [w EXCEPT !.tcalls[c] = Min(@ + 1, 2)]
        fd == w.conns[c].fd
    IN  IF fd = NoFd THEN w0
        ELSE [close(w0, c) EXCEPT
                 !.td[c] = @ + 1,
                 !.pool = [f \in DOMAIN w.pool \ {fd} |-> w.pool[f]],
                 !.conns[c].self_ref = FALSE]

\* Conn::send_data(fd, EV_WRITE): flush the send buffer until the socket
\* would block or the buffer is empty.  acc is the number of bytes the
\* socket takes before it would block, err a failure of send().
send_data(w, c, acc, err) ==
    LET w0 == [w EXCEPT !.sd = @ + 1]
        sb == w.conns[c].send_buffer
    IN  IF size(sb) = 0
        THEN [w0 EXCEPT !.conns[c].ready_send = TRUE]
        ELSE IF err
        THEN terminate([w0 EXCEPT !.io = @ + 1], c)
        ELSE LET n == Min(acc, size(sb))
                 p == pop(sb, n)
             IN  [w0 EXCEPT !.io = @ + 1,
                            !.conns[c].send_buffer = p.rb,
                            !.wire[c] = @ \o p.res,
                            !.conns[c].ready_send = (n = size(sb))]

write_always_flush(w, c, data, acc, err) ==
    send_data([w EXCEPT !.conns[c].send_buffer = push(@, data)], c, acc, err)

\* Conn::write(bytearray_t &&data)
write(w, c, data, acc, err) ==
    LET w1 == [w EXCEPT !.conns[c].send_buffer = push(@, data)]
    IN  IF w1.conns[c].ready_send
        THEN send_data(w1, c, acc, err)
        ELSE w1

\* Conn::move_send_buffer(conn_t other): send_buffer =
\* std::move(other->send_buffer); other may be the connection itself
move_send_buffer_copies(w, c, d) ==
    [w EXCEPT !.conns[c].send_buffer =
                  assign_copy(@, w.conns[d].send_buffer, c = d)]

move_send_buffer(w, c, d) ==
    LET m == assign_move(w.conns[c].send_buffer, w.conns[d].send_buffer, c = d)
    IN  IF c = d THEN [w EXCEPT !.conns[c].send_buffer = m.this]
        ELSE [w EXCEPT !.conns[d].send_buffer = m.other,
                       !.conns[c].send_buffer = m.this]

\* the application's on_read(): it takes all of read(), the receive buffer
on_read(w, c) ==
    LET rb == w.conns[c].recv_buffer
    IN  [w EXCEPT !.rd = @ + 1,
                  !.conns[c].recv_buffer = pop(rb, size(rb)).rb]

\* Conn::recv_data(fd, EV_READ): ret is what the read on the socket
\* returned, -1 a failed read, 0 end of stream, otherwise the number of bytes
\* read.  The bytes go to the receive buffer and on_read() runs; a read of
\* nothing or a failed read is the peer closing: terminate()
recv_data(w, c, ret) ==
    IF ret <= 0 THEN terminate(w, c)
    ELSE on_read([w EXCEPT !.conns[c].recv_buffer = push(@, Fresh(0, ret))], c)

\* ConnPool::add_conn: the registry entry for the connection's handle
add_conn(w, c) ==
    [w EXCEPT !.pool = [f \in DOMAIN w.pool \cup {w.conns[c].fd} |->
                           IF f = w.conns[c].fd THEN c ELSE w.pool[f]]]

\* ConnPool::create_conn(addr): a Conn from the factory, ACTIVE, on a new
\* socket, registered at once, the first connect issued
create_conn(w, c, fd, garbage) ==
    add_conn([w EXCEPT !.conns[c] =
                 [Conn(garbage) EXCEPT !.fd = fd, !.mode = "ACTIVE",
                                       !.ev_connect = "conn"]], c)

\* ConnPool::accept_client: a Conn from the factory, PASSIVE, on the accepted
\* socket, registered, reading, with the setup timeout running
accept_client(w, c, fd, garbage) ==
    add_conn([w EXCEPT !.conns[c] =
                 [Conn(garbage) EXCEPT !.fd = fd, !.mode = "PASSIVE",
                                       !.ev_read = TRUE,
                                       !.ev_connect = "timer"]], c)

\* Conn::conn_server: the connect has completed (ok) or failed
conn_server(w, c, ok) ==
    IF ok
    THEN [w EXCEPT !.conns[c].ev_connect = "none",
                   !.conns[c].ev_read = TRUE,
                   !.conns[c].ev_write = TRUE,
                   !.conns[c].setup = TRUE]
    ELSE [w EXCEPT !.conns[c].ev_connect = "timer"]

\* Conn::try_conn: the retry timer fired, connect again
try_conn(w, c) == [w EXCEPT !.conns[c].ev_connect = "conn"]

RECURSIVE close_all(_, _)
close_all(w, cs) ==
    IF cs = {} THEN w
    ELSE LET c == CHOOSE x \in cs : TRUE
         IN  close_all(close(w, c), cs \ {c})

RECURSIVE terminate_all_keep(_, _)
terminate_all_keep(w, cs) ==
    IF cs = {} THEN w
    ELSE LET c == CHOOSE x \in cs : TRUE
         IN  terminate_all_keep(terminate_keep_entry(w, c), cs \ {c})

dtor_terminates(w) ==
    terminate_all_keep(w, {w.pool[f] : f \in DOMAIN w.pool})

\* ~ConnPool(): for (auto it: pool) it.second->close();
ConnPool_dtor(w) == close_all(w, {w.pool[f] : f \in DOMAIN w.pool})

\* PASSIVE setup completed in time: the timeout is cancelled, on_setup() has
\* run, the connection reads and writes
passive_setup(w, c) ==
    [w EXCEPT !.conns[c].ev_connect = "none",
              !.conns[c].ev_write = TRUE,
              !.conns[c].setup = TRUE]

\* the socket is connected to a peer
Connected(cn) == cn.fd # NoFd /\ (cn.mode = "PASSIVE" \/ cn.setup)

\* what send() can do on the connection's handle: fail on a released
\* handle, fail or take nothing on a socket that is not connected yet
SockCan(cn, acc, err) ==
    /\ err => acc = 0
    /\ cn.fd = NoFd => err
    /\ ~Connected(cn) => (err \/ acc = 0)

\* ------------------------------------------------------------------------
\* The pool, its connections, the reactor and the application
\* ------------------------------------------------------------------------
NoOp ==
    [op |-> "none", c |-> 1, d |-> 1, n |-> 0, ready |-> FALSE, st |-> "none",
     prior |-> FALSE, pre_sb |-> RingBuffer, sd |-> 0, io |-> 0, rd |-> 0,
     same |-> TRUE, pre |-> [c \in ConnIds |-> NoConn]]

\* what write(n fresh bytes) on c observed: the ready_send flag, the
\* lifecycle state and the send buffer it found, and the calls of send_data
\* and of send() it made
WriteOp(c, n, w2) ==
    [NoOp EXCEPT !.op = "write", !.c = c, !.n = n,
                 !.ready = conns[c].ready_send,
                 !.st = State(conns[c]),
                 !.pre_sb = conns[c].send_buffer,
                 !.sd = w2.sd, !.io = w2.io]

\* what terminate() on c observed: whether terminate() had been entered on c
\* before, and whether the call left the connections, the registry and the
\* teardown counts as they were
TerminateOp(c, w2) ==
    [NoOp EXCEPT !.op = "terminate", !.c = c,
                 !.prior = (tcalls[c] >= 1),
                 !.same = (w2.conns = conns /\ w2.pool = pool /\ w2.td = td)]

\* what c.move_send_buffer(d) observed: the connection objects it found and
\* the calls of send_data and of send() it made
MoveOp(c, d, w2) ==
    [NoOp EXCEPT !.op = "move_send_buffer", !.c = c, !.d = d,
                 !.pre = conns, !.sd = w2.sd, !.io = w2.io]

\* what recv_data on c observed: the lifecycle state it found, what the read
\* returned and the invocations of on_read() it made
RecvOp(c, ret, w2) ==
    [NoOp EXCEPT !.op = "recv_data", !.c = c, !.n = ret,
                 !.st = State(conns[c]), !.rd = w2.rd]

\* a reactor callback on c
Callback(c) ==
    /\ stale' = (stale \/ State(conns[c]) = "CLOSED")
    /\ clast' = NoOp

\* the factory hands out the objects in order
NextObject(c) == ~conns[c].made /\ \A d \in ConnIds : d < c => conns[d].made

Commit(w2) ==
    /\ conns' = w2.conns
    /\ pool' = w2.pool
    /\ td' = w2.td
    /\ tcalls' = w2.tcalls
    /\ wire' = w2.wire

Init ==
    /\ conns = [c \in ConnIds |-> NoConn]
    /\ pool = <<>>
    /\ pool_state = "live"
    /\ listen_fd = NoFd
    /\ wire = [c \in ConnIds |-> <<>>]
    /\ written = [c \in ConnIds |-> <<>>]
    /\ td = [c \in ConnIds |-> 0]
    /\ tcalls = [c \in ConnIds |-> 0]
    /\ budget = [writes |-> 0, bytes |-> 0]
    /\ stale = FALSE
    /\ clast = NoOp
    /\ tries = [c \in ConnIds |-> 0]
    \* the stand-alone buffers: none constructed
    /\ bufs = [x \in BufIds |-> RingBuffer]
    /\ alive = {}
    /\ nextb = 0
    /\ rlast = Op("none", "a", "a", 0, <<>>, RingBuffer)
    /\ hist = [pushed |-> <<>>, popped |-> <<>>]

\* pool.listen(addr)
Listen ==
    /\ pool_state = "live" /\ listen_fd = NoFd /\ FreeFds # {}
    /\ listen_fd' = LowestFree
    /\ clast' = NoOp
    /\ UNCHANGED <<stale, conns, pool, pool_state, wire, written, td, tcalls, budget>>

\* the listening socket is readable: accept one client
AcceptClient(c, garbage) ==
    /\ pool_state = "live" /\ listen_fd # NoFd
    /\ NextObject(c) /\ FreeFds # {}
    /\ LET w2 == accept_client(World, c, LowestFree, garbage)
       IN  Commit(w2) /\ clast' = NoOp /\ UNCHANGED stale
    /\ UNCHANGED <<pool_state, listen_fd, written, budget>>

\* pool.create_conn(addr)
CreateConn(c, garbage) ==
    /\ pool_state = "live"
    /\ NextObject(c) /\ FreeFds # {}
    /\ LET w2 == create_conn(World, c, LowestFree, garbage)
       IN  Commit(w2) /\ clast' = NoOp /\ UNCHANGED stale
    /\ UNCHANGED <<pool_state, listen_fd, written, budget>>

\* reactor: the connecting socket is writable, conn_server runs
ConnServer(c, ok) ==
    /\ conns[c].ev_connect = "conn"
    /\ LET w2 == conn_server(World, c, ok)
       IN  Commit(w2) /\ Callback(c)
    /\ UNCHANGED <<pool_state, listen_fd, written, budget>>

\* reactor: the retry timer of an ACTIVE connection fired, try_conn runs
TryConn(c) ==
    /\ conns[c].ev_connect = "timer" /\ conns[c].mode = "ACTIVE"
    /\ LET w2 == try_conn(World, c)
       IN  Commit(w2) /\ Callback(c)
    /\ UNCHANGED <<pool_state, listen_fd, written, budget>>

\* the setup of a PASSIVE connection completes before its timeout
PassiveSetup(c) ==
    /\ conns[c].ev_connect = "timer" /\ conns[c].mode = "PASSIVE"
    /\ LET w2 == passive_setup(World, c)
       IN  Commit(w2) /\ Callback(c)
    /\ UNCHANGED <<pool_state, listen_fd, written, budget>>

\* reactor: the setup timeout of a PASSIVE connection fired
PassiveTimeout(c) ==
    /\ conns[c].ev_connect = "timer" /\ conns[c].mode = "PASSIVE"
    /\ LET w2 == terminate(World, c)
       IN  Commit(w2) /\ Callback(c)
    /\ UNCHANGED <<pool_state, listen_fd, written, budget>>

\* reactor: the socket is readable, recv_data runs and its read returns ret
RecvData(c, ret) ==
    /\ conns[c].ev_read
    /\ LET w2 == recv_data(World, c, ret)
       IN  /\ Commit(w2)
           /\ stale' = (stale \/ State(conns[c]) = "CLOSED")
           /\ clast' = RecvOp(c, ret, w2)
    /\ UNCHANGED <<pool_state, listen_fd, written, budget>>

\* reactor: the socket is writable, send_data runs
SendData(c, acc, err) ==
    /\ conns[c].ev_write
    /\ SockCan(conns[c], acc, err)
    /\ LET w2 == send_data(World, c, acc, err)
       IN  Commit(w2) /\ Callback(c)
    /\ UNCHANGED <<pool_state, listen_fd, written, budget>>

\* application: conn->write(data), data of n fresh bytes; the caller holds
\* a handle, so the object may be in any state
Write(c, n, acc, err, max) ==
    /\ conns[c].made
    /\ budget.writes < max
    /\ SockCan(conns[c], acc, err)
    /\ LET data == Fresh(budget.bytes, n)
           w2   == write(World, c, data, acc, err)
       IN  /\ Commit(w2)
           /\ clast' = WriteOp(c, n, w2)
           /\ UNCHANGED stale
           /\ written' = [written EXCEPT ![c] = @ \o data]
    /\ budget' = [budget EXCEPT !.writes = @ + 1, !.bytes = @ + n]
    /\ UNCHANGED <<pool_state, listen_fd>>

\* application: conn->terminate(), while the pool it points to exists
Terminate(c) ==
    /\ pool_state = "live"
    /\ conns[c].made
    /\ LET w2 == terminate(World, c)
       IN  Commit(w2) /\ clast' = TerminateOp(c, w2) /\ UNCHANGED stale
    /\ UNCHANGED <<pool_state, listen_fd, written, budget>>

\* application: c->move_send_buffer(d); the caller holds both handles.  The
\* call counts in the budget of application calls
MoveSendBuffer(c, d, max) ==
    /\ conns[c].made /\ conns[d].made
    /\ budget.writes < max
    /\ LET w2 == move_send_buffer(World, c, d)
       IN  Commit(w2) /\ clast' = MoveOp(c, d, w2) /\ UNCHANGED stale
    /\ budget' = [budget EXCEPT !.writes = @ + 1]
    /\ UNCHANGED <<pool_state, listen_fd, written>>

\* the pool is destroyed
DestroyPool ==
    /\ pool_state = "live"
    /\ LET w2 == ConnPool_dtor(World)
       IN  Commit(w2) /\ clast' = NoOp /\ UNCHANGED stale
    /\ pool_state' = "destroyed"
    /\ UNCHANGED <<listen_fd, written, budget>>

\* the variables the pool's own steps leave alone
aside == <<rbvars, tries>>

vars == <<cvars, rbvars, tries>>

\* the pool with both connections: few writes, of at most one byte, and
\* reads of at most one byte
Next ==
    \/ Listen /\ UNCHANGED aside
    \/ \E c \in ConnIds, g \in BOOLEAN : AcceptClient(c, g) /\ UNCHANGED aside
    \/ \E c \in ConnIds, g \in BOOLEAN : CreateConn(c, g) /\ UNCHANGED aside
    \/ \E c \in ConnIds, ok \in BOOLEAN : ConnServer(c, ok) /\ UNCHANGED aside
    \/ \E c \in ConnIds : TryConn(c) /\ UNCHANGED aside
    \/ \E c \in ConnIds : PassiveSetup(c) /\ UNCHANGED aside
    \/ \E c \in ConnIds : PassiveTimeout(c) /\ UNCHANGED aside
    \/ \E c \in ConnIds, ret \in (0 - 1)..1 :
          RecvData(c, ret) /\ UNCHANGED aside
    \/ \E c \in ConnIds, acc \in 0..PoolWrites, err \in BOOLEAN :
          SendData(c, acc, err) /\ UNCHANGED aside
    \/ \E c \in ConnIds, n \in 0..1, acc \in 0..PoolWrites, err \in BOOLEAN :
          Write(c, n, acc, err, PoolWrites) /\ UNCHANGED aside
    \/ \E c \in ConnIds : Terminate(c) /\ UNCHANGED aside
    \/ DestroyPool /\ UNCHANGED aside

\* connection 1 alone: more and longer writes
NextIO ==
    \/ Listen /\ UNCHANGED aside
    \/ \E g \in BOOLEAN : AcceptClient(1, g) /\ UNCHANGED aside
    \/ \E g \in BOOLEAN : CreateConn(1, g) /\ UNCHANGED aside
    \/ \E ok \in BOOLEAN : ConnServer(1, ok) /\ UNCHANGED aside
    \/ TryConn(1) /\ UNCHANGED aside
    \/ PassiveSetup(1) /\ UNCHANGED aside
    \/ PassiveTimeout(1) /\ UNCHANGED aside
    \/ \E ret \in (0 - 1)..MaxData : RecvData(1, ret) /\ UNCHANGED aside
    \/ \E acc \in 0..(MaxWrites * MaxData), err \in BOOLEAN :
          SendData(1, acc, err) /\ UNCHANGED aside
    \/ \E n \in 0..MaxData, acc \in 0..(MaxWrites * MaxData),
          err \in BOOLEAN :
          Write(1, n, acc, err, MaxWrites) /\ UNCHANGED aside
    \/ Terminate(1) /\ UNCHANGED aside
    \/ DestroyPool /\ UNCHANGED aside

\* two outbound connections whose send buffers the application also moves
\* from one to the other; a connection closes on a failed send() or with
\* the pool
NextMv ==
    \/ \E c \in ConnIds, g \in BOOLEAN : CreateConn(c, g) /\ UNCHANGED aside
    \/ \E c \in ConnIds, ok \in BOOLEAN : ConnServer(c, ok) /\ UNCHANGED aside
    \/ \E c \in ConnIds : TryConn(c) /\ UNCHANGED aside
    \/ \E c \in ConnIds, acc \in 0..MaxData, err \in BOOLEAN :
          SendData(c, acc, err) /\ UNCHANGED aside
    \/ \E c \in ConnIds, n \in 0..MaxData, acc \in 0..MaxData,
          err \in BOOLEAN :
          Write(c, n, acc, err, MvCalls) /\ UNCHANGED aside
    \/ \E c, d \in ConnIds : MoveSendBuffer(c, d, MvCalls) /\ UNCHANGED aside
    \/ DestroyPool /\ UNCHANGED aside

\* create_conn issues the first connect attempt of the connection
CreateConnR(c, garbage) ==
    /\ CreateConn(c, garbage)
    /\ tries' = [tries EXCEPT ![c] = 1]
    /\ UNCHANGED rbvars

\* the retry timer fired (after the delay gen_conn_timeout() gave): try_conn
\* issues one more connect attempt
TryConnR(c) ==
    /\ TryConn(c)
    /\ tries' = [tries EXCEPT ![c] = Min(@ + 1, MaxTries)]
    /\ UNCHANGED rbvars

\* outbound connections against a peer that accepts or refuses each attempt
NextRetry ==
    \/ \E c \in ConnIds, g \in BOOLEAN : CreateConnR(c, g)
    \/ \E c \in ConnIds, ok \in BOOLEAN : ConnServer(c, ok) /\ UNCHANGED aside
    \/ \E c \in ConnIds : TryConnR(c)
    \/ \E c \in ConnIds : Terminate(c) /\ UNCHANGED aside
    \/ DestroyPool /\ UNCHANGED aside

\* ------------------------------------------------------------------------
\* Properties of the connection and the pool
\* ------------------------------------------------------------------------
SendContent(c) == ContentOf(conns[c].send_buffer.ring)

\* C4: on a connection, the bytes handed to the socket followed by the bytes
\* still in the send buffer are the write() payloads in call order: what the
\* socket got is a prefix of what was written, nothing lost, duplicated or
\* reordered, whether write() flushed at once, a write-readiness event
\* flushed later, or the socket took only part.
WriteOrder ==
    \A c \in ConnIds :
        /\ wire[c] \o SendContent(c) = written[c]
        /\ IsPrefix(wire[c], written[c])

\* three writes: the first sent whole, the second in part (its segment is
\* cut), the third waiting behind it
WriteOrderWitness ==
    /\ budget.writes >= 3
    /\ Len(wire[1]) >= 3
    /\ Len(conns[1].send_buffer.ring) = 2
    /\ conns[1].send_buffer.ring[1].offset > 0
    /\ length(conns[1].send_buffer.ring[1]) > 0

\* the n bytes of the last write()
LastData == SubSeq(written[clast.c], Len(written[clast.c]) - clast.n + 1,
                   Len(written[clast.c]))

\* C5: write(bytes) calls send_data, once and in the same call, exactly when
\* ready_send was true on entry; when it was false no send() is made and the
\* send buffer is the old one with bytes as a new tail segment; in both cases
\* what is left in the buffer is a suffix of the old content followed by bytes.
WriteFlushesIffReady ==
    clast.op = "write" =>
        LET sb  == conns[clast.c].send_buffer
            all == ContentOf(clast.pre_sb.ring) \o LastData
        IN  /\ clast.sd = (IF clast.ready THEN 1 ELSE 0)
            /\ ~clast.ready =>
                  /\ clast.io = 0
                  /\ sb.ring = Append(clast.pre_sb.ring,
                                      [data |-> LastData, offset |-> 0])
                  /\ size(sb) = size(clast.pre_sb) + clast.n
            /\ Len(ContentOf(sb.ring)) <= Len(all)
            /\ ContentOf(sb.ring) =
                  SubSeq(all, Len(all) - Len(ContentOf(sb.ring)) + 1, Len(all))

\* a write() on an ESTABLISHED connection that found ready_send true and
\* whose flush left part of the bytes in the buffer
WriteFlushesIffReadyWitness ==
    /\ clast.op = "write" /\ clast.ready /\ clast.st = "ESTABLISHED"
    /\ clast.io = 1 /\ clast.n >= 2
    /\ size(conns[clast.c].send_buffer) = 1
    /\ ~conns[clast.c].ready_send

NoEventsAfterTerminate ==
    /\ \A c \in ConnIds :
          tcalls[c] >= 1 => conns[c].fd = NoFd /\ NoEvents(conns[c])
    /\ ~stale

\* a terminated connection that was ESTABLISHED (it had read and write
\* registrations), while the other connection still gets callbacks
NoEventsAfterTerminateWitness ==
    \E c, d \in ConnIds :
        /\ tcalls[c] >= 1 /\ conns[c].setup /\ td[c] = 1
        /\ d # c /\ conns[d].ev_write /\ conns[d].ev_read

\* C8: while the pool lives, every registry key maps to a made connection
\* whose handle is that key and is open, and no connection is registered
\* under two keys.
RegistryInvariant ==
    pool_state = "live" =>
        /\ \A f \in DOMAIN pool :
              /\ f # NoFd
              /\ conns[pool[f]].made
              /\ conns[pool[f]].fd = f
        /\ \A f, g \in DOMAIN pool : pool[f] = pool[g] => f = g

\* a handle used again: connection 1 was terminated and connection 2 is
\* registered under the handle connection 1 had
RegistryInvariantWitness ==
    /\ pool_state = "live" /\ listen_fd = NoFd
    /\ conns[1].fd = NoFd /\ td[1] = 1
    /\ 0 \in DOMAIN pool /\ pool[0] = 2

\* C9: after the pool's destruction every connection that was registered has
\* fd = -1 and no read, write or connect/timer registration, and its
\* on_teardown() has not been invoked.
DestroyClosesAll ==
    pool_state = "destroyed" =>
        \A f \in DOMAIN pool :
            /\ conns[pool[f]].fd = NoFd
            /\ NoEvents(conns[pool[f]])
            /\ td[pool[f]] = 0

\* a pool destroyed with an ESTABLISHED and a not yet established connection
DestroyClosesAllWitness ==
    /\ pool_state = "destroyed"
    /\ Cardinality(DOMAIN pool) = 2
    /\ \E c, d \in ConnIds : conns[c].setup /\ ~conns[d].setup

\* C10: a write() on an ACTIVE connection that is not ESTABLISHED yet makes
\* no send attempt: it calls neither send_data nor send().
WriteBeforeEstablishedBuffers ==
    clast.op = "write" /\ clast.st = "CONNECTING" =>
        clast.sd = 0 /\ clast.io = 0

\* c is an outbound connection whose connect has not succeeded yet
Connecting(c) == State(conns[c]) = "CONNECTING"

\* C11: an ACTIVE connection that is CONNECTING always has a connect attempt
\* in flight or a retry scheduled; every scheduled retry is followed by a
\* further attempt unless the connection is closed first, however many
\* attempts have failed; and once the connection is ESTABLISHED or CLOSED no
\* further attempt is made.
ActiveRetry ==
    /\ [](\A c \in ConnIds :
             Connecting(c) => conns[c].ev_connect \in {"conn", "timer"})
    /\ [][\A c \in ConnIds :
             State(conns[c]) \in {"ESTABLISHED", "CLOSED"} =>
                 /\ tries'[c] = tries[c]
                 /\ conns'[c].ev_connect = "none"]_vars
    /\ \A c \in ConnIds :
          (Connecting(c) /\ conns[c].ev_connect = "timer")
              ~> (conns[c].ev_connect = "conn" \/ State(conns[c]) = "CLOSED")

\* MaxTries attempts of a connection have failed and the next one is
\* scheduled
ActiveRetryWitness ==
    \E c \in ConnIds :
        /\ Connecting(c)
        /\ tries[c] = MaxTries
        /\ conns[c].ev_connect = "timer"

\* C15: when recv_data runs on an ESTABLISHED connection and its read
\* returns 0 or fails, the connection is CLOSED afterwards, on_teardown() has
\* been invoked (once), the registry has no entry for it, and on_read() was
\* not invoked for the event.
PeerCloseTearsDown ==
    clast.op = "recv_data" /\ clast.st = "ESTABLISHED" /\ clast.n <= 0 =>
        /\ State(conns[clast.c]) = "CLOSED"
        /\ td[clast.c] = 1
        /\ \A f \in DOMAIN pool : pool[f] # clast.c
        /\ clast.rd = 0

\* a failed read on an ESTABLISHED connection while the other connection
\* stays registered and ESTABLISHED
PeerCloseTearsDownWitness ==
    /\ clast.op = "recv_data" /\ clast.st = "ESTABLISHED" /\ clast.n < 0
    /\ td[clast.c] = 1
    /\ \E f \in DOMAIN pool :
          pool[f] # clast.c /\ State(conns[pool[f]]) = "ESTABLISHED"

\* C16: a connection whose socket handle has been closed (fd = -1), by
\* terminate() or by the destruction of the pool, does not hold its
\* self-reference.
ClosedHoldsNoSelfRef ==
    \A c \in ConnIds :
        conns[c].made /\ conns[c].fd = NoFd => ~conns[c].self_ref

\* C18: between operations, a connection with ready_send = true has an
\* empty send buffer.
ReadySendMeansNoBacklog ==
    \A c \in ConnIds :
        conns[c].made /\ conns[c].ready_send =>
            size(conns[c].send_buffer) = 0

\* C19: a write() on a connection whose socket has been closed (fd = -1)
\* only appends to the send buffer: it calls neither send_data nor send().
WriteOnClosedOnlyBuffers ==
    clast.op = "write" /\ clast.st = "CLOSED" =>
        clast.sd = 0 /\ clast.io = 0

\* C20: after a.move_send_buffer(b) with a # b, a's send buffer is the one b
\* had (segments, cursors, size), b's is empty, and nothing else of any
\* connection (receive buffer, fd, mode, ready_send, events) differs from
\* before; after a.move_send_buffer(a) no connection differs; in both cases
\* neither send_data nor send() was called.
MoveSendBufferFrame ==
    clast.op = "move_send_buffer" =>
        LET a == clast.c
            b == clast.d
            p == clast.pre
        IN  /\ a # b =>
                  conns = [p EXCEPT ![a].send_buffer = p[b].send_buffer,
                                    ![b].send_buffer = RingBuffer]
            /\ a = b => conns = p
            /\ clast.sd = 0 /\ clast.io = 0

\* a move between two connections that handed over a partially sent segment
\* to a connection whose ready_send is true
MoveSendBufferFrameWitness ==
    /\ clast.op = "move_send_buffer" /\ clast.c # clast.d
    /\ Len(conns[clast.c].send_buffer.ring) >= 1
    /\ conns[clast.c].send_buffer.ring[1].offset > 0
    /\ length(conns[clast.c].send_buffer.ring[1]) > 0
    /\ size(conns[clast.d].send_buffer) = 0
    /\ State(conns[clast.c]) = "ESTABLISHED"
    /\ State(conns[clast.d]) = "ESTABLISHED"

\* every operation on the two stand-alone buffers
NextRB ==
    \/ \E x \in BufIds : Construct(x) /\ UNCHANGED <<hist, cvars, tries>>
    \/ \E x \in BufIds : Destroy(x) /\ UNCHANGED <<hist, cvars, tries>>
    \/ \E x \in BufIds, n \in 0..MaxData : Push(x, n) /\ UNCHANGED <<hist, cvars, tries>>
    \/ \E x \in BufIds, len \in 0..MaxPop : Pop(x, len) /\ UNCHANGED <<hist, cvars, tries>>
    \/ \E x \in BufIds : Clear(x) /\ UNCHANGED <<hist, cvars, tries>>
    \/ \E x, y \in BufIds : Swap(x, y) /\ UNCHANGED <<hist, cvars, tries>>
    \/ \E x, y \in BufIds : CopyConstruct(x, y) /\ UNCHANGED <<hist, cvars, tries>>
    \/ \E x, y \in BufIds : MoveConstruct(x, y) /\ UNCHANGED <<hist, cvars, tries>>
    \/ \E x, y \in BufIds : CopyAssign(x, y) /\ UNCHANGED <<hist, cvars, tries>>
    \/ \E x, y \in BufIds : MoveAssign(x, y) /\ UNCHANGED <<hist, cvars, tries>>

\* push and pop on buffer a, with its history
NextPP ==
    \/ Construct("a") /\ UNCHANGED <<hist, cvars, tries>>
    \/ \E n \in 0..MaxData : PushA(n) /\ UNCHANGED <<cvars, tries>>
    \/ \E len \in 0..MaxPop : PopA(len) /\ UNCHANGED <<cvars, tries>>

\* the pool and its connections
Spec == Init /\ [][Next]_vars

\* one connection of the pool, with more calls of write()
SpecIO == Init /\ [][NextIO]_vars

\* outbound connections and their connect attempts; the reactor fires a
\* retry timer that is armed
SpecRetry ==
    /\ Init /\ [][NextRetry]_vars
    /\ \A c \in ConnIds : WF_vars(TryConnR(c))

\* two outbound connections with move_send_buffer
SpecMv == Init /\ [][NextMv]_vars

\* two stand-alone buffers under every buffer operation
SpecRB == Init /\ [][NextRB]_vars

\* one stand-alone buffer under push and pop
SpecPP == Init /\ [][NextPP]_vars

====
